---- MODULE Spec2Model ----
(***************************************************************************)
(* klipper-st3215: the shared serial bus manager (ST3215Bus) and the       *)
(* per-servo controller (ST3215Servo).                                     *)
(*                                                                         *)
(* The Python methods are operators over a "world" record w that is        *)
(* threaded through the calls a handler makes:                             *)
(*   w.bus      the ST3215Bus instance's fields                            *)
(*   w.servo    the tracked fields of every ST3215Servo                    *)
(*   w.cfg      the configuration of every ST3215Servo                     *)
(*   w.resp     what the running G-code command answered                   *)
(*   w.shutdown printer.invoke_shutdown has been called                    *)
(*   w.lock     the calling thread holds bus.lock (threading.Lock)         *)
(*   w.faults   what the next driver calls do (raise or answer)            *)
(*   w.dev      what the device answers when a primitive does not raise    *)
(*   w.now      the monotonic clock, in hundredths of a second             *)
(*   w.log      the calls made by the running handler, in order            *)
(*   w.st       "run", or "hang": the thread is blocked for ever           *)
(*   w.exc      the exception propagating, or None                         *)
(*   w.ret      the value returned by the last call                        *)
(***************************************************************************)
EXTENDS Integers, Sequences, FiniteSets, TLC

\* Python's None is the empty tuple and a present value v is <<v>>, so that
\* an optional field has one type.
None == <<>>

Some(v) == <<v>>

The(o) == o[1]

\* ---------------------------------------------------------------- bounds
\* Positions are 0..MaxPosition (the device's 0..4095, scaled down).
MaxPosition == 7
\* Temperatures the device reports are 0..MaxTemp (degrees C, scaled down).
MaxTemp == 2
\* A fault script fixes the outcome of at most MaxScript driver calls one
\* by one; every later call has the script's "rest" outcome.
MaxScript == 5

ServoIds == {1, 2}
\* The positions the model takes from the device's range: both ends and the
\* configured limits (PositionMin, MaxPosition - 1). The upper limit is the
\* poll tick's dead band or more away from the lower limit.
Positions == {0, 1, MaxPosition - 1, MaxPosition}
Temps == 0..MaxTemp

RECURSIVE SeqsUpTo(_, _)
SeqsUpTo(S, n) ==
    IF n = 0 THEN {<<>>}
    ELSE LET shorter == SeqsUpTo(S, n - 1)
         IN shorter \cup {Append(q, x) : q \in {p \in shorter : Len(p) = n - 1}, x \in S}

Outcomes == {"ok", "fail"}
Scripts == [pre : SeqsUpTo(Outcomes, MaxScript), rest : Outcomes]
\* The scripts of the servo-level specification: the bus is up or down, or
\* changes once, after the first call.
ServoScripts == {s \in Scripts : s.pre = <<>> \/ (Len(s.pre) = 1 /\ s.pre[1] # s.rest)}
NoFaults == [pre |-> <<>>, rest |-> "ok"]

\* ------------------------------------------------------------ sequencing
\* F applied to the value of e: the statement that follows an assignment.
Bind(e, F(_)) == CHOOSE y \in {F(v) : v \in {e}} : TRUE

\* ------------------------------------------------------------ the driver
\* A call of the running handler: `ok` is FALSE when it raised, `ans` is what
\* it answered (None when it raised or answers nothing).
Event(name, id, args, ok, ans) ==
    [ev |-> name, id |-> id, args |-> args, ok |-> ok, ans |-> ans]

Running(w) == w.st = "run" /\ w.exc = None

\* The statements F that follow a call which left the world e: they run
\* unless the call raised or never returned.
Then(e, F(_)) == Bind(e, LAMBDA x : IF Running(x) THEN F(x) ELSE x)

\* A call that is not a driver call (connect, disconnect, sleep, ...).
Note(w, name) == [w EXCEPT !.log = Append(@, Event(name, 0, <<>>, TRUE, None))]

\* One call into the st3215 driver: it raises or it answers, as the fault
\* script says.
DriverCall(w, name, id, args, answer) ==
    Bind((IF w.faults.pre = <<>> THEN w.faults.rest ELSE Head(w.faults.pre)) = "ok",
         LAMBDA ok :
           [w EXCEPT !.faults.pre = IF @ = <<>> THEN <<>> ELSE Tail(@),
                     !.log = Append(@, Event(name, id, args, ok, IF ok THEN answer ELSE None)),
                     !.exc = IF ok THEN None ELSE Some("DriverError")])

\* self.st3215.<Primitive>(...): an AttributeError when there is no handle.
Primitive(w, name, id, args, answer) ==
    IF w.bus.st3215 = None
    THEN [w EXCEPT !.exc = Some("DriverError")]
    ELSE DriverCall(w, name, id, args, answer)

\* ---------------------------------------------------------- threading.Lock
\* `with self.lock:` by a thread that already holds it never returns.
Acquire(w) == IF w.lock THEN [w EXCEPT !.st = "hang"] ELSE [w EXCEPT !.lock = TRUE]

Release(w) == [w EXCEPT !.lock = FALSE]

\* ------------------------------------------------------------- ST3215Bus
NewBus ==
    [st3215 |-> None, connected |-> FALSE, last_error |-> None,
     reconnect_attempt |-> 0, position_cache |-> [i \in ServoIds |-> None]]

max_retries == 3

\* Mutant: connect opens the driver whether or not the bus is connected.
connect_always_opens(w) ==
    Bind(Acquire(Note(w, "connect")), LAMBDA a :
      IF a.st = "hang" THEN a
      ELSE Bind(DriverCall(a, "Open", 0, <<>>, None), LAMBDA o :
             IF o.exc = None
             THEN Release([o EXCEPT !.bus.st3215 = Some("driver"),
                                    !.bus.connected = TRUE,
                                    !.bus.reconnect_attempt = 0,
                                    !.bus.last_error = None])
             ELSE Release([o EXCEPT !.bus.connected = FALSE,
                                    !.bus.last_error = Some("DriverError"),
                                    !.exc = Some("ST3215BusError")])))

connect(w) ==
    Bind(Acquire(Note(w, "connect")), LAMBDA a :
      IF a.st = "hang" THEN a
      ELSE IF a.bus.connected THEN Release(a)
      ELSE Bind(DriverCall(a, "Open", 0, <<>>, None), LAMBDA o :
             IF o.exc = None
             THEN Release([o EXCEPT !.bus.st3215 = Some("driver"),
                                    !.bus.connected = TRUE,
                                    !.bus.reconnect_attempt = 0,
                                    !.bus.last_error = None])
             ELSE Release([o EXCEPT !.bus.connected = FALSE,
                                    !.bus.last_error = Some("DriverError"),
                                    !.exc = Some("ST3215BusError")])))

disconnect(w) ==
    Bind(Acquire(Note(w, "disconnect")), LAMBDA a :
      IF a.st = "hang" THEN a
      ELSE IF a.bus.st3215 # None
           THEN Release([Note(a, "closePort") EXCEPT !.bus.st3215 = None,
                                                     !.bus.connected = FALSE])
           ELSE Release(a))

\* time.sleep(0.5). The thread is held for half a second; the model's clock
\* moves between handlers only (Advance), so the call is recorded and the
\* time it takes is part of the time that passes after the handler.
Backoff == 50

sleep(w) == [w EXCEPT !.log = Append(@, Event("sleep", 0, <<Backoff>>, TRUE, None))]

\* Mutant: the reconnect goes straight from disconnect to connect.
Reconnect_no_backoff(w) ==
    Bind(disconnect(w), LAMBDA d :
      IF d.st # "run" THEN d
      ELSE Bind(connect(d), LAMBDA k :
             IF k.st # "run" THEN k
             ELSE IF k.exc = None
                  THEN [k EXCEPT !.bus.reconnect_attempt = @ + 1]
                  ELSE [k EXCEPT !.exc = None]))

\* The reconnect of a failed attempt that is not the last: lines 155-161.
Reconnect(w) ==
    Bind(disconnect(w), LAMBDA d :
      IF d.st # "run" THEN d
      ELSE Bind(connect(sleep(d)), LAMBDA k :
             IF k.st # "run" THEN k
             ELSE IF k.exc = None
                  THEN [k EXCEPT !.bus.reconnect_attempt = @ + 1]
                  ELSE [k EXCEPT !.exc = None]))

\* The iterations of the for loop of _execute_with_retry from `attempt` on.
\* Each iteration is recorded in the log as "attempt".
RECURSIVE RetryLoop(_, _, _, _, _, _)
RetryLoop(w, name, id, args, answer, attempt) ==
    IF attempt >= max_retries THEN [w EXCEPT !.ret = None]
    ELSE
    Bind(Note(w, "attempt"), LAMBDA s :
    Bind(IF ~s.bus.connected THEN connect(s) ELSE s, LAMBDA c :
    Bind(IF Running(c) THEN Primitive(c, name, id, args, answer) ELSE c, LAMBDA r :
      IF r.st = "hang" THEN r
      ELSE IF r.exc = None
           THEN [r EXCEPT !.bus.reconnect_attempt = 0, !.ret = answer]
           ELSE IF attempt < max_retries - 1
                THEN Bind(Reconnect([r EXCEPT !.bus.last_error = r.exc, !.exc = None]),
                          LAMBDA n :
                            IF n.st = "hang" THEN n
                            ELSE RetryLoop(n, name, id, args, answer, attempt + 1))
                ELSE [r EXCEPT !.bus.last_error = r.exc,
                               !.exc = Some("ST3215BusError")])))

execute_with_retry(w, name, id, args, answer) ==
    Bind(Note(w, "execute_with_retry"), LAMBDA s :
      RetryLoop(s, name, id, args, answer, 0))

\* The body shared by the single-attempt operations: with self.lock, connect
\* if needed, one primitive; any exception gives `failed`.
LockedAttempt(w, name, id, answer, failed) ==
    Bind(Acquire(w), LAMBDA a :
    Bind(IF a.st = "run" /\ ~a.bus.connected THEN connect(a) ELSE a, LAMBDA c :
    Bind(IF Running(c) THEN Primitive(c, name, id, <<>>, answer) ELSE c, LAMBDA r :
      IF r.st = "hang" THEN r
      ELSE IF r.exc = None
           THEN Release([r EXCEPT !.ret = answer])
           ELSE Release([r EXCEPT !.exc = None, !.ret = failed]))))

ping_servo(w, id) == LockedAttempt(w, "PingServo", id, w.dev.ping, FALSE)

\* A Python list is a sequence: [] is <<>>.
list_servos(w) == LockedAttempt(w, "ListServos", 0, w.dev.list, <<>>)

\* Mutant: the move is sent and the position cache is left as it was.
bus_move_to_no_cache(w, id, position, speed, acceleration) ==
    execute_with_retry(w, "MoveTo", id, <<position, speed, acceleration>>, None)

\* Mutant: the commanded position is cached for every servo of the bus.
bus_move_to_caches_all(w, id, position, speed, acceleration) ==
    Then(execute_with_retry(w, "MoveTo", id, <<position, speed, acceleration>>, None),
         LAMBDA r : [r EXCEPT !.bus.position_cache = [i \in ServoIds |-> Some(position)],
                              !.ret = None])

\* Mutant: the position cache is written whether or not the move was sent.
bus_move_to_cache_always(w, id, position, speed, acceleration) ==
    Bind(execute_with_retry(w, "MoveTo", id, <<position, speed, acceleration>>, None),
         LAMBDA r : IF r.st = "hang" THEN r
                    ELSE [r EXCEPT !.bus.position_cache[id] = Some(position)])

bus_move_to(w, id, position, speed, acceleration) ==
    Then(execute_with_retry(w, "MoveTo", id, <<position, speed, acceleration>>, None),
         LAMBDA r : [r EXCEPT !.bus.position_cache[id] = Some(position), !.ret = None])

\* Mutant: a failed read raises instead of answering from the cache.
read_position_no_fallback(w, id) ==
    Then(execute_with_retry(w, "ReadPosition", id, <<>>, w.dev.pos),
         LAMBDA r : IF r.ret # None
                    THEN [r EXCEPT !.bus.position_cache[id] = r.ret]
                    ELSE r)

\* Mutant: a failed read answers nothing; the cache is not consulted.
read_position_forgets(w, id) ==
    Bind(execute_with_retry(w, "ReadPosition", id, <<>>, w.dev.pos), LAMBDA r :
      IF r.st = "hang" THEN r
      ELSE IF r.exc = None
           THEN IF r.ret # None
                THEN [r EXCEPT !.bus.position_cache[id] = r.ret]
                ELSE r
           ELSE [r EXCEPT !.exc = None, !.ret = None])

read_position(w, id) ==
    Bind(execute_with_retry(w, "ReadPosition", id, <<>>, w.dev.pos), LAMBDA r :
      IF r.st = "hang" THEN r
      ELSE IF r.exc = None
           THEN IF r.ret # None
                THEN [r EXCEPT !.bus.position_cache[id] = r.ret]
                ELSE r
           ELSE [r EXCEPT !.exc = None, !.ret = r.bus.position_cache[id]])

read_temperature(w, id) == LockedAttempt(w, "ReadTemperature", id, w.dev.temp, None)

read_voltage(w, id) == LockedAttempt(w, "ReadVoltage", id, w.dev.volt, None)

read_current(w, id) == LockedAttempt(w, "ReadCurrent", id, w.dev.cur, None)

\* The returned dictionary is w.ret: [temperature, voltage, current].
read_status(w, id) ==
    Bind(read_temperature(w, id), LAMBDA t :
      IF t.st = "hang" THEN t
      ELSE Bind(read_voltage(t, id), LAMBDA v :
        IF v.st = "hang" THEN v
        ELSE Bind(read_current(v, id), LAMBDA c :
          IF c.st = "hang" THEN c
          ELSE [c EXCEPT !.ret = [temperature |-> t.ret, voltage |-> v.ret,
                                  current |-> c.ret]])))

enable_servo(w, id) == execute_with_retry(w, "StartServo", id, <<>>, None)

disable_servo(w, id) == execute_with_retry(w, "StopServo", id, <<>>, None)

bus_is_moving(w, id) == LockedAttempt(w, "IsMoving", id, w.dev.moving, FALSE)

set_speed(w, id, speed) == execute_with_retry(w, "SetSpeed", id, <<speed>>, None)

set_acceleration(w, id, acceleration) ==
    execute_with_retry(w, "SetAcceleration", id, <<acceleration>>, None)

\* ----------------------------------------------------------- ST3215Servo
\* The limits of the device, as __init__ and move_to state them.
SpeedLimit == 3400
AccelLimit == 254
\* The poll tick's dead band and the period of its telemetry update (5.0 s).
DeadBand == 5
StatusPeriod == 500

Min(a, b) == IF a < b THEN a ELSE b
Max(a, b) == IF a > b THEN a ELSE b
Abs(a) == IF a < 0 THEN -a ELSE a

NewServo ==
    [current_position |-> None, target_position |-> None, is_moving |-> FALSE,
     enabled |-> FALSE, last_status_update |-> 0, cached_temperature |-> None,
     cached_current |-> None, cached_voltage |-> None, last_error |-> None,
     status_timer |-> None]

\* raise e: the call in progress returns nothing.
Raise(w, e) == [w EXCEPT !.exc = Some(e), !.ret = None]

\* Mutant: only the lower limit is checked.
validate_position_min_only(w, id, position) ==
    IF position < w.cfg[id].position_min THEN Raise(w, "ValueError")
    ELSE [w EXCEPT !.ret = Some(position)]

validate_position(w, id, position) ==
    IF position < w.cfg[id].position_min THEN Raise(w, "ValueError")
    ELSE IF position > w.cfg[id].position_max THEN Raise(w, "ValueError")
    ELSE [w EXCEPT !.ret = Some(position)]

\* printer.invoke_shutdown(msg): the host's process-wide shutdown signal.
invoke_shutdown(w) == [Note(w, "invoke_shutdown") EXCEPT !.shutdown = TRUE]

\* Mutant: the critical temperature signals the shutdown and does not raise.
check_temperature_no_raise(w, id) ==
    IF w.servo[id].cached_temperature = None THEN w
    ELSE IF The(w.servo[id].cached_temperature) >= w.cfg[id].temperature_critical
         THEN invoke_shutdown(w)
         ELSE IF The(w.servo[id].cached_temperature) >= w.cfg[id].temperature_warning
              THEN Note(w, "temperature_warning")
              ELSE w

\* Mutant: the critical limit is exclusive.
check_temperature_exclusive(w, id) ==
    IF w.servo[id].cached_temperature = None THEN w
    ELSE IF The(w.servo[id].cached_temperature) > w.cfg[id].temperature_critical
         THEN Raise(invoke_shutdown(w), "Exception")
         ELSE IF The(w.servo[id].cached_temperature) >= w.cfg[id].temperature_warning
              THEN Note(w, "temperature_warning")
              ELSE w

check_temperature(w, id) ==
    IF w.servo[id].cached_temperature = None THEN w
    ELSE IF The(w.servo[id].cached_temperature) >= w.cfg[id].temperature_critical
         THEN Raise(invoke_shutdown(w), "Exception")
         ELSE IF The(w.servo[id].cached_temperature) >= w.cfg[id].temperature_warning
              THEN Note(w, "temperature_warning")
              ELSE w

\* speed and accel are optional: None stands for the Python default.
move_to(w, id, position, speed, accel) ==
    Then(validate_position(w, id, position), LAMBDA v :
    Then(check_temperature(v, id), LAMBDA t :
    Then(bus_move_to(t, id, position,
             Max(0, Min(SpeedLimit,
                        IF speed = None THEN t.cfg[id].max_speed ELSE The(speed))),
             Max(0, Min(AccelLimit,
                        IF accel = None THEN t.cfg[id].max_accel ELSE The(accel)))),
         LAMBDA b : [b EXCEPT !.servo[id].target_position = Some(position),
                              !.servo[id].is_moving = TRUE])))

\* Mutant: the stop leaves is_moving as it was.
stop_keeps_moving(w, id) ==
    Then(read_position(w, id), LAMBDA r :
      IF r.ret = None THEN r
      ELSE Then(bus_move_to([r EXCEPT !.servo[id].current_position = r.ret],
                            id, The(r.ret), 0, 0),
                LAMBDA m : [m EXCEPT !.servo[id].target_position = r.ret]))

stop(w, id) ==
    Then(read_position(w, id), LAMBDA r :
      IF r.ret = None THEN r
      ELSE Then(bus_move_to([r EXCEPT !.servo[id].current_position = r.ret],
                            id, The(r.ret), 0, 0),
                LAMBDA m : [m EXCEPT !.servo[id].target_position = r.ret,
                                     !.servo[id].is_moving = FALSE]))

\* Mutant: the flag is set before the bus is asked.
enable_flag_first(w, id) ==
    enable_servo([w EXCEPT !.servo[id].enabled = TRUE], id)

enable(w, id) ==
    Then(enable_servo(w, id), LAMBDA b : [b EXCEPT !.servo[id].enabled = TRUE])

disable(w, id) ==
    Then(disable_servo(w, id),
         LAMBDA b : [b EXCEPT !.servo[id].enabled = FALSE,
                              !.servo[id].is_moving = FALSE])

\* Mutant: relabelling the position also clears is_moving.
set_position_clears_moving(w, id, position) ==
    Then(validate_position(w, id, position),
         LAMBDA v : [v EXCEPT !.servo[id].current_position = Some(position),
                              !.servo[id].target_position = Some(position),
                              !.servo[id].is_moving = FALSE,
                              !.ret = None])

set_position(w, id, position) ==
    Then(validate_position(w, id, position),
         LAMBDA v : [v EXCEPT !.servo[id].current_position = Some(position),
                              !.servo[id].target_position = Some(position),
                              !.ret = None])

get_status(w, id) ==
    [position |-> w.servo[id].current_position,
     target_position |-> w.servo[id].target_position,
     is_moving |-> w.servo[id].is_moving,
     temperature |-> w.servo[id].cached_temperature,
     current |-> w.servo[id].cached_current,
     voltage |-> w.servo[id].cached_voltage,
     enabled |-> w.servo[id].enabled,
     last_error |-> w.servo[id].last_error]

\* klippy:connect. Every exception becomes the host's command_error.
handle_connect(w, id) ==
    Bind(Then(connect(w), LAMBDA c :
         Then(ping_servo(c, id), LAMBDA p :
           IF ~p.ret THEN Raise(p, "command_error")
           ELSE Then(read_position(p, id), LAMBDA r :
                  IF r.ret # None
                  THEN [r EXCEPT !.servo[id].current_position = r.ret,
                                 !.servo[id].target_position = r.ret]
                  ELSE r))),
         LAMBDA s : IF s.st = "run" /\ s.exc # None THEN Raise(s, "command_error") ELSE s)

\* Mutant: the ready phase commands the move before it enables the servo.
handle_ready_move_first(w, id) ==
    Bind(IF w.cfg[id].initial_position # None
         THEN Then(move_to(w, id, The(w.cfg[id].initial_position), None, None),
                   LAMBDA e : enable(e, id))
         ELSE w,
         LAMBDA m : IF m.st = "hang" THEN m
                    ELSE [m EXCEPT !.exc = None, !.servo[id].status_timer = Some(m.now)])

\* Mutant: a failure of the enable or of the initial move leaves the ready
\* handler as an exception, before the timer is registered.
handle_ready_propagates(w, id) ==
    Bind(IF w.cfg[id].initial_position # None
         THEN Then(enable(w, id), LAMBDA e :
                move_to(e, id, The(e.cfg[id].initial_position), None, None))
         ELSE w,
         LAMBDA m : IF m.st = "hang" \/ m.exc # None THEN m
                    ELSE [m EXCEPT !.servo[id].status_timer = Some(m.now)])

\* klippy:ready. reactor.NOW: the timer is due at once.
handle_ready(w, id) ==
    Bind(IF w.cfg[id].initial_position # None
         THEN Then(enable(w, id), LAMBDA e :
                move_to(e, id, The(e.cfg[id].initial_position), None, None))
         ELSE w,
         LAMBDA m : IF m.st = "hang" THEN m
                    ELSE [m EXCEPT !.exc = None, !.servo[id].status_timer = Some(m.now)])

\* klippy:shutdown.
handle_shutdown(w, id) ==
    Bind(disable(w, id), LAMBDA d : IF d.st = "hang" THEN d ELSE [d EXCEPT !.exc = None])

\* Mutant: a temperature that could not be read leaves the cached one.
UpdateTelemetry_keeps_temperature(w, id, eventtime) ==
    Bind(read_status(w, id), LAMBDA s :
      IF s.st = "hang" THEN s
      ELSE Bind(check_temperature(
                    [s EXCEPT !.servo[id].cached_temperature =
                                  IF s.ret.temperature = None THEN @ ELSE s.ret.temperature,
                              !.servo[id].cached_current = s.ret.current,
                              !.servo[id].cached_voltage = s.ret.voltage], id),
                LAMBDA t : [t EXCEPT !.exc = None,
                                     !.servo[id].last_status_update = eventtime]))

\* The telemetry part of a poll tick, lines 436-449.
UpdateTelemetry(w, id, eventtime) ==
    Bind(read_status(w, id), LAMBDA s :
      IF s.st = "hang" THEN s
      ELSE Bind(check_temperature(
                    [s EXCEPT !.servo[id].cached_temperature = s.ret.temperature,
                              !.servo[id].cached_current = s.ret.current,
                              !.servo[id].cached_voltage = s.ret.voltage], id),
                LAMBDA t : [t EXCEPT !.exc = None,
                                     !.servo[id].last_status_update = eventtime]))

\* Mutant: a difference of exactly the dead band counts as moving.
update_status_timer_inclusive(w, id, eventtime) ==
    Bind(Then(read_position(w, id), LAMBDA r :
         Then(IF r.ret # None
              THEN [r EXCEPT !.servo[id].current_position = r.ret,
                             !.servo[id].is_moving =
                                 IF r.servo[id].target_position # None
                                 THEN Abs(The(r.ret) - The(r.servo[id].target_position))
                                          >= DeadBand
                                 ELSE @]
              ELSE r,
              LAMBDA p : IF eventtime - p.servo[id].last_status_update > StatusPeriod
                         THEN UpdateTelemetry(p, id, eventtime)
                         ELSE p)),
         LAMBDA u : IF u.st = "hang" THEN u
                    ELSE [u EXCEPT !.servo[id].last_error = u.exc,
                                   !.exc = None,
                                   !.ret = Some(eventtime + u.cfg[id].status_update_interval)])

\* _update_status_timer: w.ret is the next wake time, a present value.
update_status_timer(w, id, eventtime) ==
    Bind(Then(read_position(w, id), LAMBDA r :
         Then(IF r.ret # None
              THEN [r EXCEPT !.servo[id].current_position = r.ret,
                             !.servo[id].is_moving =
                                 IF r.servo[id].target_position # None
                                 THEN Abs(The(r.ret) - The(r.servo[id].target_position))
                                          > DeadBand
                                 ELSE @]
              ELSE r,
              LAMBDA p : IF eventtime - p.servo[id].last_status_update > StatusPeriod
                         THEN UpdateTelemetry(p, id, eventtime)
                         ELSE p)),
         LAMBDA u : IF u.st = "hang" THEN u
                    ELSE [u EXCEPT !.servo[id].last_error = u.exc,
                                   !.exc = None,
                                   !.ret = Some(eventtime + u.cfg[id].status_update_interval)])

\* ------------------------------------------------------ G-code commands
Respond(w, text) == [w EXCEPT !.resp = Append(@, text)]

\* raise gcmd.error(text), as the handler's last word.
GcmdError(w, text) == [Respond(w, text) EXCEPT !.exc = Some("gcmd.error")]

PollMin == 1
PollMax == 100

poll_interval(w, id) == Max(PollMin, Min(PollMax, w.cfg[id].status_update_interval))

\* Mutant: the wait gives up when the next poll would come after the deadline.
WaitTurn_early_timeout(w, id, end_time) ==
    Bind(bus_is_moving(w, id), LAMBDA q :
      IF q.st = "hang" THEN q
      ELSE IF q.exc # None
           THEN [GcmdError(q, "Error checking servo moving state") EXCEPT !.ret = None]
           ELSE IF ~q.ret
                THEN [Respond(q, "reached position") EXCEPT !.ret = None]
                ELSE IF q.now + poll_interval(q, id) >= end_time
                     THEN [GcmdError(q, "Timeout waiting") EXCEPT !.ret = None]
                     ELSE [q EXCEPT !.ret = Some(q.now + poll_interval(q, id))])

\* One turn of the wait loop of cmd_STSERVO_MOVE, lines 499-515. w.ret is
\* None when the command has ended and the time to pause until otherwise.
WaitTurn(w, id, end_time) ==
    Bind(bus_is_moving(w, id), LAMBDA q :
      IF q.st = "hang" THEN q
      ELSE IF q.exc # None
           THEN [GcmdError(q, "Error checking servo moving state") EXCEPT !.ret = None]
           ELSE IF ~q.ret
                THEN [Respond(q, "reached position") EXCEPT !.ret = None]
                ELSE IF q.now >= end_time
                     THEN [GcmdError(q, "Timeout waiting") EXCEPT !.ret = None]
                     ELSE [q EXCEPT !.ret = Some(q.now + poll_interval(q, id))])

\* cmd_STSERVO_MOVE up to its first pause. POSITION, SPEED and ACCEL have
\* passed gcmd.get_int's range checks.
cmd_STSERVO_MOVE(w, id, position, speed, accel, wait) ==
    Bind(move_to(w, id, position, Some(speed), Some(accel)), LAMBDA m :
      IF m.st = "hang" THEN m
      ELSE IF m.exc # None
           THEN [GcmdError(m, The(m.exc)) EXCEPT !.ret = None]
           ELSE IF wait > 0
                THEN WaitTurn(Respond(m, "Moving"), id, m.now + wait)
                ELSE [Respond(m, "Moving") EXCEPT !.ret = None])

\* ------------------------------------------------------------------ state
VARIABLES
    cfg,        \* [ServoIds -> configuration], fixed at construction
    servo,      \* [ServoIds -> the tracked fields of ST3215Servo]
    bus,        \* the fields of the shared ST3215Bus
    shutdown,   \* printer.invoke_shutdown has been called
    phase,      \* [ServoIds -> "init", "failed", "connected", "ready"]
    clock,      \* reactor.monotonic(), in hundredths of a second
    hung,       \* the reactor's thread is blocked for ever
    cmd,        \* the G-code command in progress: its wait loop's position
    last,       \* the last handler run: what was called and how it ended
    log,        \* the calls the last handler made, in order
    resp,       \* what the last G-code command answered
    thread,     \* [Threads -> where each concurrent caller of the bus is]
    lock_owner, \* the thread that holds bus.lock, or None
    registry    \* ST3215Bus._instances, its lock and the callers of get_instance

vars == <<cfg, servo, bus, shutdown, phase, clock, hung, cmd, last, log, resp,
          thread, lock_owner, registry>>

PositionMin == 1
PositionMax == MaxPosition - 1
TempWarning == 1
TempCritical == 2
\* status_update_interval = 3.0 s
Interval == 300
\* The monotonic clock when the host starts, and the end of the model's time.
BootTime == 600
MaxTime == 1200

Config(initial) ==
    [position_min |-> PositionMin, position_max |-> PositionMax,
     max_speed |-> SpeedLimit, max_accel |-> AccelLimit,
     initial_position |-> initial, status_update_interval |-> Interval,
     temperature_warning |-> TempWarning, temperature_critical |-> TempCritical]

ValidConfig(c) ==
    /\ c.position_min < c.position_max
    /\ c.temperature_warning < c.temperature_critical
    /\ c.initial_position # None =>
         The(c.initial_position) \in c.position_min..c.position_max

DefaultDev ==
    [pos |-> None, temp |-> Some(0), volt |-> Some(12), cur |-> Some(100),
     moving |-> FALSE, ping |-> TRUE, list |-> <<1, 2>>]

Idle == [pc |-> "idle"]

\* The callers of the bus that run concurrently, and a caller that is in no
\* bus operation.
Threads == {1, 2}

Resting ==
    [pc |-> "rest", op |-> "none", attempt |-> 0, after |-> "rest", onfail |-> "rest"]

\* The reconnect counter of the concurrent specification stops here.
MaxReconnects == 2

\* The (serial_port, baudrate) pairs the servos are configured with.
Keys == {<<"/dev/ttyUSB0", 1000000>>, <<"/dev/ttyUSB0", 115200>>, <<"/dev/ttyUSB1", 1000000>>}

\* The class attributes of ST3215Bus when the module is loaded, and callers
\* that have not called get_instance. An instance is the number of the
\* constructor run that made it.
NewRegistry ==
    [instances |-> [k \in Keys |-> None], lock |-> None, made |-> 0,
     built |-> [k \in Keys |-> 0], given |-> {}, calls |-> 0,
     caller |-> [t \in Threads |-> [pc |-> "rest", key |-> None, got |-> None]]]

\* No handler is running: the reactor is in its dispatch loop.
NoCall == [op |-> "none", id |-> 0, arg |-> None, exc |-> None, ret |-> None]

World(faults, dev) ==
    [bus |-> bus, servo |-> servo, cfg |-> cfg, shutdown |-> shutdown,
     lock |-> FALSE, faults |-> faults, dev |-> dev, now |-> clock,
     log |-> <<>>, resp |-> <<>>, st |-> "run", exc |-> None, ret |-> None]

\* The handler `op` of servo `id` ran from World(..) to w. last.ret is the
\* returned value as a present optional: The(last.ret) is the value.
Commit(w, op, id, arg) ==
    /\ bus' = w.bus
    /\ servo' = w.servo
    /\ shutdown' = w.shutdown
    /\ clock' = w.now
    /\ hung' = (w.st = "hang")
    /\ log' = w.log
    /\ resp' = w.resp
    /\ last' = [op |-> op, id |-> id, arg |-> arg, exc |-> w.exc, ret |-> Some(w.ret)]
    /\ UNCHANGED <<cfg, thread, lock_owner, registry>>

\* ---------------------------------------------------------------- actions
\* The servos the host has configured.
Active == {1}

\* What construction leaves besides the configuration and the servos.
Fresh ==
    /\ bus = NewBus
    /\ shutdown = FALSE
    /\ phase = [i \in ServoIds |-> "init"]
    /\ clock = BootTime
    /\ hung = FALSE
    /\ cmd = Idle
    /\ last = NoCall
    /\ log = <<>>
    /\ resp = <<>>
    /\ thread = [t \in Threads |-> Resting]
    /\ lock_owner = None
    /\ registry = NewRegistry

\* The state after construction, with servo 1 configured as one of `configs`.
Constructed(configs) ==
    /\ cfg \in [ServoIds -> configs \cup {Config(None)}]
    /\ \A i \in Active : cfg[i] \in configs
    /\ \A i \in ServoIds \ Active : cfg[i] = Config(None)
    /\ servo = [i \in ServoIds |-> NewServo]
    /\ Fresh

Init == Constructed({Config(Some(PositionMax))})

\* The reactor's thread is free to run a handler.
Free == ~hung /\ last = NoCall /\ clock <= MaxTime

\* A G-code command may start: none is in progress and the host accepts them.
Ready(id) == Free /\ cmd = Idle /\ phase[id] = "ready"

HandleConnect(id) ==
    /\ Free /\ phase[id] = "init"
    /\ \E f \in ServoScripts, ping \in BOOLEAN, pos \in {None} \cup {Some(p) : p \in Positions} :
         \E w \in {handle_connect(World(f, [DefaultDev EXCEPT !.ping = ping, !.pos = pos]), id)} :
            /\ Commit(w, "handle_connect", id, None)
            /\ phase' = [phase EXCEPT ![id] = IF w.exc = None THEN "connected" ELSE "failed"]
    /\ UNCHANGED cmd

HandleReady(id) ==
    /\ Free /\ phase[id] = "connected"
    /\ \E f \in ServoScripts :
         \E w \in {handle_ready(World(f, DefaultDev), id)} :
            Commit(w, "handle_ready", id, None)
    /\ phase' = [phase EXCEPT ![id] = "ready"]
    /\ UNCHANGED cmd

\* klippy:shutdown can come at any time; the timers go on afterwards, and
\* the model does not restrict the commands that follow either.
HandleShutdown(id) ==
    /\ Free /\ phase[id] \in {"connected", "ready"}
    /\ \E f \in ServoScripts :
         \E w \in {handle_shutdown(World(f, DefaultDev), id)} :
            Commit(w, "handle_shutdown", id, None)
    /\ UNCHANGED <<phase, cmd>>

MoveTo(id) ==
    /\ Ready(id)
    /\ \E f \in ServoScripts, p \in Positions :
         \E w \in {move_to(World(f, DefaultDev), id, p, None, None)} :
            Commit(w, "move_to", id, Some(p))
    /\ UNCHANGED <<phase, cmd>>

Stop(id) ==
    /\ Ready(id)
    /\ \E f \in ServoScripts, pos \in {None} \cup {Some(p) : p \in Positions} :
         \E w \in {stop(World(f, [DefaultDev EXCEPT !.pos = pos]), id)} :
            Commit(w, "stop", id, None)
    /\ UNCHANGED <<phase, cmd>>

Enable(id) ==
    /\ Ready(id)
    /\ \E f \in ServoScripts :
         \E w \in {enable(World(f, DefaultDev), id)} : Commit(w, "enable", id, None)
    /\ UNCHANGED <<phase, cmd>>

Disable(id) ==
    /\ Ready(id)
    /\ \E f \in ServoScripts :
         \E w \in {disable(World(f, DefaultDev), id)} : Commit(w, "disable", id, None)
    /\ UNCHANGED <<phase, cmd>>

SetPosition(id) ==
    /\ Ready(id)
    /\ \E p \in Positions :
         \E w \in {set_position(World(NoFaults, DefaultDev), id, p)} :
            Commit(w, "set_position", id, Some(p))
    /\ UNCHANGED <<phase, cmd>>

\* The reactor runs the status timer when it is due, with the current time.
PollTick(id) ==
    /\ Free
    /\ servo[id].status_timer # None
    /\ The(servo[id].status_timer) <= clock
    /\ \E f \in ServoScripts, pos \in {None} \cup {Some(p) : p \in Positions}, t \in Temps :
         \E u \in {update_status_timer(
                       World(f, [DefaultDev EXCEPT !.pos = pos, !.temp = Some(t)]), id, clock)} :
         \E w \in {IF u.st = "hang" THEN u
                   ELSE [u EXCEPT !.servo[id].status_timer = u.ret]} :
            Commit(w, "update_status_timer", id, Some(clock))
    /\ UNCHANGED <<phase, cmd>>

\* Time passes until the next timer or pause is due.
Wakes ==
    {The(servo[i].status_timer) : i \in {j \in ServoIds : servo[j].status_timer # None}}
        \cup (IF cmd.pc = "paused" THEN {cmd.wake} ELSE {})

\* The handler has returned (or raised) to the reactor, which drops its record.
Return ==
    /\ ~hung /\ last # NoCall
    /\ last' = NoCall /\ log' = <<>> /\ resp' = <<>>
    /\ UNCHANGED <<cfg, servo, bus, shutdown, phase, clock, hung, cmd, thread, lock_owner,
                   registry>>

Advance ==
    /\ ~hung /\ last = NoCall
    /\ \E t \in Wakes :
         /\ t > clock /\ t <= MaxTime
         /\ \A u \in Wakes : u > clock => t <= u
         /\ clock' = t
    /\ UNCHANGED <<cfg, servo, bus, shutdown, phase, hung, cmd, last, log, resp,
                   thread, lock_owner, registry>>

Next ==
    \/ \E id \in Active : HandleConnect(id)
    \/ \E id \in Active : HandleReady(id)
    \/ \E id \in Active : HandleShutdown(id)
    \/ \E id \in Active : MoveTo(id)
    \/ \E id \in Active : Stop(id)
    \/ \E id \in Active : Enable(id)
    \/ \E id \in Active : Disable(id)
    \/ \E id \in Active : SetPosition(id)
    \/ \E id \in Active : PollTick(id)
    \/ Return
    \/ Advance

Spec == Init /\ [][Next]_vars

\* The start of the host: klippy:connect, klippy:ready and the poll ticks
\* that follow, for a servo configured with no initial_position or with
\* either end of its range.
InitReady ==
    Constructed({Config(None), Config(Some(PositionMin)), Config(Some(PositionMax))})

NextReady ==
    \/ \E id \in Active : HandleConnect(id)
    \/ \E id \in Active : HandleReady(id)
    \/ \E id \in Active : PollTick(id)
    \/ Return
    \/ Advance

SpecReady == InitReady /\ [][NextReady]_vars

\* Two servos on the one bus. The host has started without a fault: the
\* klippy:connect handlers of both servos and then their klippy:ready
\* handlers have run, the device reporting position p1 for servo 1 and p2
\* for servo 2. Servo 1 is then commanded and polled at will; servo 2 stands
\* by (the code of the two is the same).
PairConfig ==
    [i \in ServoIds |-> IF i \in Active THEN Config(Some(PositionMax))
                        ELSE Config(Some(PositionMin))]

Started(p1, p2) ==
    Bind([bus |-> NewBus, servo |-> [i \in ServoIds |-> NewServo], cfg |-> PairConfig,
          shutdown |-> FALSE, lock |-> FALSE, faults |-> NoFaults,
          dev |-> [DefaultDev EXCEPT !.pos = p1], now |-> BootTime,
          log |-> <<>>, resp |-> <<>>, st |-> "run", exc |-> None, ret |-> None],
         LAMBDA w0 :
    Then(handle_connect(w0, 1), LAMBDA c1 :
    Then(handle_connect([c1 EXCEPT !.dev.pos = p2], 2), LAMBDA c2 :
    Then(handle_ready(c2, 1), LAMBDA r1 : handle_ready(r1, 2)))))

InitPair ==
    /\ cfg = PairConfig
    /\ \E p1 \in {None} \cup {Some(p) : p \in Positions},
          p2 \in {None} \cup {Some(p) : p \in Positions} :
       \E w \in {Started(p1, p2)} :
           /\ servo = w.servo
           /\ bus = w.bus
           /\ shutdown = w.shutdown
           /\ clock = w.now
    /\ phase = [i \in ServoIds |-> "ready"]
    /\ hung = FALSE
    /\ cmd = Idle
    /\ last = NoCall
    /\ log = <<>>
    /\ resp = <<>>
    /\ thread = [t \in Threads |-> Resting]
    /\ lock_owner = None
    /\ registry = NewRegistry

NextPair ==
    \/ \E id \in Active : MoveTo(id)
    \/ \E id \in Active : Stop(id)
    \/ \E id \in Active : Enable(id)
    \/ \E id \in Active : Disable(id)
    \/ \E id \in Active : SetPosition(id)
    \/ \E id \in Active : PollTick(id)
    \/ Return

SpecPair == InitPair /\ [][NextPair]_vars

\* --------------------------------------------- the bus, called on its own
\* One caller at a time uses the operations of ST3215Bus, in any order, on a
\* bus whose driver raises as any fault script says.
InitBus == Constructed({Config(None)})

OptPositions == {None} \cup {Some(p) : p \in Positions}

\* The operation `op` ran from World(..) to w.
BusCall(w, op, id, arg) ==
    /\ Commit(w, op, id, arg)
    /\ UNCHANGED <<phase, cmd>>

\* The caller is free to make its next call.
BusFree == ~hung /\ last = NoCall

BusConnect ==
    /\ BusFree
    /\ \E f \in ServoScripts : \E w \in {connect(World(f, DefaultDev))} :
           BusCall(w, "connect", 0, None)

BusDisconnect ==
    /\ BusFree
    /\ \E w \in {disconnect(World(NoFaults, DefaultDev))} : BusCall(w, "disconnect", 0, None)

BusPing(id) ==
    /\ BusFree
    /\ \E f \in ServoScripts, a \in BOOLEAN :
       \E w \in {ping_servo(World(f, [DefaultDev EXCEPT !.ping = a]), id)} :
           BusCall(w, "ping_servo", id, None)

BusList ==
    /\ BusFree
    /\ \E f \in ServoScripts, a \in {<<>>, <<1, 2>>} :
       \E w \in {list_servos(World(f, [DefaultDev EXCEPT !.list = a]))} :
           BusCall(w, "list_servos", 0, None)

BusMoveTo(id) ==
    /\ BusFree
    /\ \E f \in Scripts, p \in Positions :
       \E w \in {bus_move_to(World(f, DefaultDev), id, p, SpeedLimit, AccelLimit)} :
           BusCall(w, "bus_move_to", id, Some(p))

BusReadPosition(id) ==
    /\ BusFree
    /\ \E f \in Scripts, a \in OptPositions :
       \E w \in {read_position(World(f, [DefaultDev EXCEPT !.pos = a]), id)} :
           BusCall(w, "read_position", id, None)

BusReadTemperature(id) ==
    /\ BusFree
    /\ \E f \in ServoScripts, a \in Temps :
       \E w \in {read_temperature(World(f, [DefaultDev EXCEPT !.temp = Some(a)]), id)} :
           BusCall(w, "read_temperature", id, None)

BusReadVoltage(id) ==
    /\ BusFree
    /\ \E f \in ServoScripts : \E w \in {read_voltage(World(f, DefaultDev), id)} :
           BusCall(w, "read_voltage", id, None)

BusReadCurrent(id) ==
    /\ BusFree
    /\ \E f \in ServoScripts : \E w \in {read_current(World(f, DefaultDev), id)} :
           BusCall(w, "read_current", id, None)

BusReadStatus(id) ==
    /\ BusFree
    /\ \E f \in Scripts : \E w \in {read_status(World(f, DefaultDev), id)} :
           BusCall(w, "read_status", id, None)

BusEnable(id) ==
    /\ BusFree
    /\ \E f \in Scripts : \E w \in {enable_servo(World(f, DefaultDev), id)} :
           BusCall(w, "enable_servo", id, None)

BusDisable(id) ==
    /\ BusFree
    /\ \E f \in Scripts : \E w \in {disable_servo(World(f, DefaultDev), id)} :
           BusCall(w, "disable_servo", id, None)

BusIsMoving(id) ==
    /\ BusFree
    /\ \E f \in ServoScripts, a \in BOOLEAN :
       \E w \in {bus_is_moving(World(f, [DefaultDev EXCEPT !.moving = a]), id)} :
           BusCall(w, "is_moving", id, None)

BusSetSpeed(id) ==
    /\ BusFree
    /\ \E f \in Scripts : \E w \in {set_speed(World(f, DefaultDev), id, SpeedLimit)} :
           BusCall(w, "set_speed", id, Some(SpeedLimit))

BusSetAcceleration(id) ==
    /\ BusFree
    /\ \E f \in Scripts : \E w \in {set_acceleration(World(f, DefaultDev), id, AccelLimit)} :
           BusCall(w, "set_acceleration", id, Some(AccelLimit))

NextBus ==
    \/ BusConnect
    \/ BusDisconnect
    \/ \E id \in Active : BusPing(id)
    \/ BusList
    \/ \E id \in ServoIds : BusMoveTo(id)
    \/ \E id \in ServoIds : BusReadPosition(id)
    \/ \E id \in Active : BusReadTemperature(id)
    \/ \E id \in Active : BusReadVoltage(id)
    \/ \E id \in Active : BusReadCurrent(id)
    \/ \E id \in Active : BusReadStatus(id)
    \/ \E id \in Active : BusEnable(id)
    \/ \E id \in Active : BusDisable(id)
    \/ \E id \in Active : BusIsMoving(id)
    \/ \E id \in Active : BusSetSpeed(id)
    \/ \E id \in Active : BusSetAcceleration(id)
    \/ Return

SpecBus == InitBus /\ [][NextBus]_vars

\* ------------------------------- _check_temperature, every configuration
\* The limits and the cached temperature are 0..MaxLimit (the configuration's
\* 0..100, scaled down).
MaxLimit == 8

TempConfigs ==
    {[Config(None) EXCEPT !.temperature_warning = lo, !.temperature_critical = hi] :
        lo \in 0..MaxLimit, hi \in 0..MaxLimit}

ValidTempConfigs == {c \in TempConfigs : ValidConfig(c)}

\* A servo of any valid configuration whose telemetry has stored any
\* temperature, or none yet.
InitTemp ==
    /\ cfg \in [ServoIds -> ValidTempConfigs \cup {Config(None)}]
    /\ \A i \in Active : cfg[i] \in ValidTempConfigs
    /\ \A i \in ServoIds \ Active : cfg[i] = Config(None)
    /\ \E t \in {None} \cup {Some(x) : x \in 0..MaxLimit} :
         servo = [i \in ServoIds |->
                     IF i \in Active THEN [NewServo EXCEPT !.cached_temperature = t]
                     ELSE NewServo]
    /\ Fresh

CheckTemperature(id) ==
    /\ ~hung /\ last = NoCall
    /\ \E w \in {check_temperature(World(NoFaults, DefaultDev), id)} :
         Commit(w, "check_temperature", id, None)
    /\ UNCHANGED <<phase, cmd>>

NextTemp ==
    \/ \E id \in Active : CheckTemperature(id)
    \/ Return

SpecTemp == InitTemp /\ [][NextTemp]_vars

\* ------------------------------------------- STSERVO_MOVE and its wait loop
\* WAIT, in hundredths of a second: none, or one and a half poll intervals.
Waits == {0, 150}

\* The command from its start to its first pause, or to its end. A wait
\* starts only when its last poll comes before the end of the model's time.
CmdMove(id) ==
    /\ Ready(id)
    /\ \E f \in ServoScripts, p \in Positions \cap (cfg[id].position_min..cfg[id].position_max),
          wait \in {t \in Waits : clock + t + PollMax <= MaxTime}, moving \in BOOLEAN :
       \E w \in {cmd_STSERVO_MOVE(World(f, [DefaultDev EXCEPT !.moving = moving]),
                                  id, p, SpeedLimit, AccelLimit, wait)} :
         /\ Commit(w, "cmd_STSERVO_MOVE", id, Some(p))
         /\ cmd' = IF w.st = "run" /\ w.ret # None
                   THEN [pc |-> "paused", id |-> id, end_time |-> clock + wait,
                         wake |-> The(w.ret)]
                   ELSE Idle
    /\ UNCHANGED phase

\* reactor.pause returns: the next turn of the wait loop.
CmdResume ==
    /\ Free
    /\ cmd.pc = "paused"
    /\ cmd.wake <= clock
    /\ \E f \in ServoScripts, moving \in BOOLEAN :
       \E w \in {WaitTurn(World(f, [DefaultDev EXCEPT !.moving = moving]),
                          cmd.id, cmd.end_time)} :
         /\ Commit(w, "cmd_STSERVO_MOVE", cmd.id, None)
         /\ cmd' = IF w.st = "run" /\ w.ret # None
                   THEN [cmd EXCEPT !.wake = The(w.ret)]
                   ELSE Idle
    /\ UNCHANGED phase

NextWait ==
    \/ \E id \in Active : HandleConnect(id)
    \/ \E id \in Active : HandleReady(id)
    \/ \E id \in Active : CmdMove(id)
    \/ CmdResume
    \/ \E id \in Active : PollTick(id)
    \/ Return
    \/ Advance

SpecWait == Init /\ [][NextWait]_vars

\* The reactor resumes a paused command when its wake time has come, takes
\* back control when a handler returns, and time advances.
SpecWaitFair ==
    SpecWait /\ WF_vars(CmdResume) /\ WF_vars(Return) /\ WF_vars(Advance)

\* -------------------------------------------- the bus, called concurrently
\* Each thread of Threads calls operations of the one ST3215Bus; a step is
\* what a thread does between two points where another thread can run.
\* thread[t].pc is where the thread is, .op the public entry it came through,
\* .attempt the loop variable of _execute_with_retry, .after and .onfail where
\* the call in progress returns to and where its exception is caught.
At(t, pc) == thread[t].pc = pc

Land(t, pc) == IF pc = "rest" THEN Resting ELSE [thread[t] EXCEPT !.pc = pc]

Goto(t, pc) == thread' = [thread EXCEPT ![t] = Land(t, pc)]

Call(t, pc, after, onfail) ==
    thread' = [thread EXCEPT ![t].pc = pc, ![t].after = after, ![t].onfail = onfail]

Rest == UNCHANGED <<cfg, servo, shutdown, phase, clock, hung, cmd, last, log, resp, registry>>

InitThreads == Constructed({Config(None)})

\* move_to, read_position, enable_servo, disable_servo, set_speed and
\* set_acceleration: the caller enters _execute_with_retry.
CallRetry(t) ==
    /\ At(t, "rest")
    /\ thread' = [thread EXCEPT ![t] = [pc |-> "retry_top", op |-> "execute_with_retry",
                                         attempt |-> 0, after |-> "rest", onfail |-> "rest"]]
    /\ UNCHANGED <<bus, lock_owner>> /\ Rest

\* ping_servo, list_servos, read_temperature, read_voltage, read_current and
\* is_moving: the caller enters `with self.lock`.
CallLocked(t) ==
    /\ At(t, "rest")
    /\ thread' = [thread EXCEPT ![t] = [Resting EXCEPT !.pc = "locked_lock", !.op = "locked"]]
    /\ UNCHANGED <<bus, lock_owner>> /\ Rest

CallConnect(t) ==
    /\ At(t, "rest")
    /\ thread' = [thread EXCEPT ![t] = [Resting EXCEPT !.pc = "connect_lock", !.op = "connect"]]
    /\ UNCHANGED <<bus, lock_owner>> /\ Rest

CallDisconnect(t) ==
    /\ At(t, "rest")
    /\ thread' = [thread EXCEPT ![t] = [Resting EXCEPT !.pc = "disconnect_lock",
                                                       !.op = "disconnect"]]
    /\ UNCHANGED <<bus, lock_owner>> /\ Rest

\* Line 131: if not self.connected: self.connect()
RetryTop(t) ==
    /\ At(t, "retry_top")
    /\ IF ~bus.connected THEN Call(t, "connect_lock", "retry_func", "retry_failed")
       ELSE Goto(t, "retry_func")
    /\ UNCHANGED <<bus, lock_owner>> /\ Rest

\* Line 134: result = func(): the primitive starts, with no lock held.
RetryFunc(t) ==
    /\ At(t, "retry_func")
    /\ IF bus.st3215 = None THEN Goto(t, "retry_failed")
       ELSE Call(t, "primitive", "retry_return", "retry_failed")
    /\ UNCHANGED <<bus, lock_owner>> /\ Rest

\* The driver's primitive ends: it answers or it raises.
PrimitiveEnds(t) ==
    /\ At(t, "primitive")
    /\ \E ok \in BOOLEAN : Goto(t, IF ok THEN thread[t].after ELSE thread[t].onfail)
    /\ UNCHANGED <<bus, lock_owner>> /\ Rest

\* Lines 137-143.
RetryReturn(t) ==
    /\ At(t, "retry_return")
    /\ bus' = [bus EXCEPT !.reconnect_attempt = 0]
    /\ Goto(t, "rest")
    /\ UNCHANGED lock_owner /\ Rest

\* Lines 145-167: the except clause up to disconnect(), or the final raise.
RetryFailed(t) ==
    /\ At(t, "retry_failed")
    /\ bus' = [bus EXCEPT !.last_error = Some("DriverError")]
    /\ IF thread[t].attempt < max_retries - 1
       THEN Call(t, "disconnect_lock", "retry_sleep", "retry_sleep")
       ELSE Goto(t, "rest")
    /\ UNCHANGED lock_owner /\ Rest

\* Lines 157-158: time.sleep(0.5), then connect().
RetrySleep(t) ==
    /\ At(t, "retry_sleep")
    /\ Call(t, "connect_lock", "retry_counted", "retry_next")
    /\ UNCHANGED <<bus, lock_owner>> /\ Rest

\* Line 159: self.reconnect_attempt += 1
RetryCounted(t) ==
    /\ At(t, "retry_counted")
    /\ bus.reconnect_attempt < MaxReconnects
    /\ bus' = [bus EXCEPT !.reconnect_attempt = @ + 1]
    /\ Goto(t, "retry_next")
    /\ UNCHANGED lock_owner /\ Rest

\* The next iteration of the for loop.
RetryNext(t) ==
    /\ At(t, "retry_next")
    /\ thread' = [thread EXCEPT ![t].pc = "retry_top", ![t].attempt = @ + 1]
    /\ UNCHANGED <<bus, lock_owner>> /\ Rest

\* `with self.lock` of connect(): the thread waits until the lock is free.
ConnectLock(t) ==
    /\ At(t, "connect_lock")
    /\ lock_owner = None
    /\ lock_owner' = Some(t)
    /\ thread' = [thread EXCEPT ![t].pc = "connect_body"]
    /\ UNCHANGED bus /\ Rest

\* Lines 76-77, and the start of the driver's open.
ConnectBody(t) ==
    /\ At(t, "connect_body")
    /\ IF bus.connected
       THEN lock_owner' = None /\ Goto(t, thread[t].after)
       ELSE lock_owner' = lock_owner /\ thread' = [thread EXCEPT ![t].pc = "connecting"]
    /\ UNCHANGED bus /\ Rest

\* Lines 79-96: the open ends.
Connecting(t) ==
    /\ At(t, "connecting")
    /\ \E ok \in BOOLEAN :
         IF ok
         THEN /\ bus' = [bus EXCEPT !.st3215 = Some("driver"), !.connected = TRUE,
                                    !.reconnect_attempt = 0, !.last_error = None]
              /\ Goto(t, thread[t].after)
         ELSE /\ bus' = [bus EXCEPT !.connected = FALSE,
                                    !.last_error = Some("DriverError")]
              /\ Goto(t, thread[t].onfail)
    /\ lock_owner' = None
    /\ Rest

DisconnectLock(t) ==
    /\ At(t, "disconnect_lock")
    /\ lock_owner = None
    /\ lock_owner' = Some(t)
    /\ thread' = [thread EXCEPT ![t].pc = "disconnect_body"]
    /\ UNCHANGED bus /\ Rest

\* Line 101, and the start of closePort.
DisconnectBody(t) ==
    /\ At(t, "disconnect_body")
    /\ IF bus.st3215 # None
       THEN lock_owner' = lock_owner /\ thread' = [thread EXCEPT ![t].pc = "disconnecting"]
       ELSE lock_owner' = None /\ Goto(t, thread[t].after)
    /\ UNCHANGED bus /\ Rest

\* Lines 102-110: closePort ends.
Disconnecting(t) ==
    /\ At(t, "disconnecting")
    /\ bus' = [bus EXCEPT !.st3215 = None, !.connected = FALSE]
    /\ lock_owner' = None
    /\ Goto(t, thread[t].after)
    /\ Rest

\* `with self.lock` of a single-attempt operation.
LockedLock(t) ==
    /\ At(t, "locked_lock")
    /\ lock_owner = None
    /\ lock_owner' = Some(t)
    /\ thread' = [thread EXCEPT ![t].pc = "locked_top"]
    /\ UNCHANGED bus /\ Rest

\* if not self.connected: self.connect(), with the lock held.
LockedTop(t) ==
    /\ At(t, "locked_top")
    /\ IF ~bus.connected THEN Call(t, "connect_lock", "locked_func", "locked_exit")
       ELSE Goto(t, "locked_func")
    /\ UNCHANGED <<bus, lock_owner>> /\ Rest

LockedFunc(t) ==
    /\ At(t, "locked_func")
    /\ IF bus.st3215 = None THEN Goto(t, "locked_exit")
       ELSE Call(t, "primitive", "locked_exit", "locked_exit")
    /\ UNCHANGED <<bus, lock_owner>> /\ Rest

\* The return, from the try or from the except clause: the lock is released.
LockedExit(t) ==
    /\ At(t, "locked_exit")
    /\ lock_owner' = None
    /\ Goto(t, "rest")
    /\ UNCHANGED bus /\ Rest

NextThreads ==
    \/ \E t \in Threads : CallRetry(t)
    \/ \E t \in Threads : CallLocked(t)
    \/ \E t \in Threads : CallConnect(t)
    \/ \E t \in Threads : CallDisconnect(t)
    \/ \E t \in Threads : RetryTop(t)
    \/ \E t \in Threads : RetryFunc(t)
    \/ \E t \in Threads : PrimitiveEnds(t)
    \/ \E t \in Threads : RetryReturn(t)
    \/ \E t \in Threads : RetryFailed(t)
    \/ \E t \in Threads : RetrySleep(t)
    \/ \E t \in Threads : RetryCounted(t)
    \/ \E t \in Threads : RetryNext(t)
    \/ \E t \in Threads : ConnectLock(t)
    \/ \E t \in Threads : ConnectBody(t)
    \/ \E t \in Threads : Connecting(t)
    \/ \E t \in Threads : DisconnectLock(t)
    \/ \E t \in Threads : DisconnectBody(t)
    \/ \E t \in Threads : Disconnecting(t)
    \/ \E t \in Threads : LockedLock(t)
    \/ \E t \in Threads : LockedTop(t)
    \/ \E t \in Threads : LockedFunc(t)
    \/ \E t \in Threads : LockedExit(t)

SpecThreads == InitThreads /\ [][NextThreads]_vars

\* ------------------------------------------------ the registry of buses
\* ST3215Bus.get_instance called by several threads, step by step.
MaxCalls == 4

\* Mutant: _instances_lock is taken whether or not it is held.
LockFree_never_held(r) == TRUE

\* with cls._instances_lock: the lock can be taken.
LockFree(r) == r.lock = None

InitRegistry == Constructed({Config(None)})

RegistryIdle == UNCHANGED <<cfg, servo, bus, shutdown, phase, clock, hung, cmd, last, log,
                            resp, thread, lock_owner>>

\* A thread calls get_instance(serial_port, baudrate).
RegistryCall(t, k) ==
    /\ registry.caller[t].pc = "rest"
    /\ registry.calls < MaxCalls
    /\ registry' = [registry EXCEPT !.calls = @ + 1,
                                    !.caller[t] = [pc |-> "enter", key |-> Some(k),
                                                   got |-> None]]
    /\ RegistryIdle

\* The thread takes the class lock and looks the key up.
RegistryEnter(t) ==
    /\ registry.caller[t].pc = "enter"
    /\ LockFree(registry)
    /\ registry' = [registry EXCEPT
                      !.lock = Some(t),
                      !.caller[t].pc =
                          IF registry.instances[The(registry.caller[t].key)] = None
                          THEN "construct" ELSE "return"]
    /\ RegistryIdle

\* cls._instances[key] = cls(serial_port, baudrate)
RegistryConstruct(t) ==
    /\ registry.caller[t].pc = "construct"
    /\ registry' = [registry EXCEPT
                      !.made = @ + 1,
                      !.built[The(registry.caller[t].key)] = @ + 1,
                      !.instances[The(registry.caller[t].key)] = Some(registry.made + 1),
                      !.caller[t].pc = "return"]
    /\ RegistryIdle

\* return cls._instances[key]; the lock is released.
RegistryReturn(t) ==
    /\ registry.caller[t].pc = "return"
    /\ \E inst \in {registry.instances[The(registry.caller[t].key)]} :
         registry' = [registry EXCEPT
                        !.lock = None,
                        !.given = @ \cup {<<The(registry.caller[t].key), The(inst)>>},
                        !.caller[t].pc = "rest",
                        !.caller[t].got = inst]
    /\ RegistryIdle

NextRegistry ==
    \/ \E t \in Threads, k \in Keys : RegistryCall(t, k)
    \/ \E t \in Threads : RegistryEnter(t)
    \/ \E t \in Threads : RegistryConstruct(t)
    \/ \E t \in Threads : RegistryReturn(t)

SpecRegistry == InitRegistry /\ [][NextRegistry]_vars

\* ------------------------------------------------------- reading the log
Called(l, name) == \E i \in 1..Len(l) : l[i].ev = name

\* The driver was asked to do `name` for servo `id` (it may have raised).
Issued(l, name, id) == \E i \in 1..Len(l) : l[i].ev = name /\ l[i].id = id

IssuedWith(l, name, id, args) ==
    \E i \in 1..Len(l) : l[i].ev = name /\ l[i].id = id /\ l[i].args = args

Count(l, name) == Cardinality({i \in 1..Len(l) : l[i].ev = name})

\* No call of the handler raised: a bus with no injected fault.
FaultFree(l) == \A i \in 1..Len(l) : l[i].ok

InRange(id, p) == cfg[id].position_min <= p /\ p <= cfg[id].position_max

Unset(o) == o = None

\* The step is the run of handler `op`, from the reactor's dispatch loop.
Runs(op) == last = NoCall /\ last'.op = op

\* ------------------------------------------------------------------ claims

\* The thread is executing a device primitive or the open or close of the
\* port; the thread is inside _execute_with_retry.
InDevice(t) == thread[t].pc \in {"primitive", "connecting", "disconnecting"}

InRetry(t) == thread[t].op = "execute_with_retry"

\* C1: at most one caller at a time is executing a device primitive or a
\* connect or disconnect, and at most one _execute_with_retry is in progress
\* on the bus. _execute_with_retry and the primitive it runs take no lock.
C1_OneCallerAtATime ==
    /\ Cardinality({t \in Threads : InDevice(t)}) <= 1
    /\ Cardinality({t \in Threads : InRetry(t)}) <= 1


\* C3: in every reachable state, current_position and target_position of a
\* servo are each unset or within [position_min, position_max]. The code
\* stores what the device reports (handle_connect, stop, the poll tick)
\* without validating it, so a device position outside the limits is kept.
C3_PositionsWithinLimits ==
    \A id \in Active :
        /\ Unset(servo[id].current_position) \/ InRange(id, The(servo[id].current_position))
        /\ Unset(servo[id].target_position) \/ InRange(id, The(servo[id].target_position))

\* C4: move_to(p) with p within the limits, no fault on the bus and the
\* cached temperature unset or below critical succeeds, and afterwards
\* target_position = p, is_moving is true and the bus position cache of the
\* servo's id is p.
C4_MoveToSucceeds ==
    (/\ last.op = "move_to"
     /\ InRange(last.id, The(last.arg))
     /\ FaultFree(log)
     /\ \/ Unset(servo[last.id].cached_temperature)
        \/ The(servo[last.id].cached_temperature) < cfg[last.id].temperature_critical)
    => /\ ~hung
       /\ last.exc = None
       /\ servo[last.id].target_position = last.arg
       /\ servo[last.id].is_moving
       /\ bus.position_cache[last.id] = last.arg
       /\ IssuedWith(log, "MoveTo", last.id, <<The(last.arg), SpeedLimit, AccelLimit>>)

C4_Witness ==
    /\ last.op = "move_to"
    /\ InRange(last.id, The(last.arg))
    /\ FaultFree(log)
    /\ Issued(log, "MoveTo", last.id)
    /\ servo[last.id].target_position = last.arg
    /\ servo[last.id].current_position # last.arg

\* C5: move_to(p) with p outside [position_min, position_max] fails with a
\* range error, makes no bus call and changes no tracked field, nor the bus;
\* the state being the same, repeating the call is rejected the same way.
C5_OutOfRangeRejected ==
    [][(Runs("move_to") /\ ~InRange(last'.id, The(last'.arg)))
        => /\ last'.exc = Some("ValueError")
           /\ log' = <<>>
           /\ UNCHANGED <<servo, bus, shutdown, hung, clock, cmd, phase>>]_vars

C5_Witness ==
    /\ last.op = "move_to"
    /\ ~InRange(last.id, The(last.arg))
    /\ last.exc = Some("ValueError")
    /\ servo[last.id].target_position # None
    /\ servo[last.id].cached_temperature # None

\* C8: with cached_temperature >= temperature_critical, move_to(p) for p
\* within the limits invokes the host's shutdown, issues no move command and
\* leaves target_position and is_moving as they were; with the temperature
\* from temperature_warning up to below critical the move is issued: the bus
\* is asked to move, and on a bus without fault the servo is commanded to p.
C8_CriticalBlocksMove ==
    [][(Runs("move_to") /\ InRange(last'.id, The(last'.arg))
            /\ servo[last'.id].cached_temperature # None)
        => LET id == last'.id
               t == The(servo[id].cached_temperature)
           IN /\ t >= cfg[id].temperature_critical
                    => /\ shutdown'
                       /\ Called(log', "invoke_shutdown")
                       /\ ~Issued(log', "MoveTo", id)
                       /\ ~Called(log', "execute_with_retry")
                       /\ servo'[id].target_position = servo[id].target_position
                       /\ servo'[id].is_moving = servo[id].is_moving
              /\ (t >= cfg[id].temperature_warning /\ t < cfg[id].temperature_critical)
                    => /\ ~Called(log', "invoke_shutdown")
                       /\ shutdown' = shutdown
                       /\ Called(log', "temperature_warning")
                       /\ Called(log', "execute_with_retry")
                       /\ FaultFree(log') =>
                            /\ IssuedWith(log', "MoveTo", id,
                                          <<The(last'.arg), SpeedLimit, AccelLimit>>)
                            /\ servo'[id].target_position = last'.arg
                            /\ servo'[id].is_moving]_vars

C8_Witness ==
    /\ last.op = "move_to"
    /\ InRange(last.id, The(last.arg))
    /\ servo[last.id].cached_temperature = Some(cfg[last.id].temperature_critical)
    /\ Called(log, "invoke_shutdown")
    /\ last.exc = Some("Exception")
    /\ servo[last.id].is_moving
    /\ servo[last.id].target_position # last.arg

\* The last call the handler made, and where its last retry attempt began.
LastEvent(l) == l[Len(l)]

LastAttempt(l) == CHOOSE i \in 1..Len(l) :
                      l[i].ev = "attempt" /\ \A j \in (i + 1)..Len(l) : l[j].ev # "attempt"

CountAfter(l, i, name) == Cardinality({j \in (i + 1)..Len(l) : l[j].ev = name})

\* Every backoff follows a disconnect and is followed by a connect.
CyclesInOrder(l) ==
    \A i \in 1..Len(l) :
        l[i].ev = "sleep" =>
            /\ i > 1 /\ i < Len(l)
            /\ l[i].args = <<Backoff>>
            /\ l[i + 1].ev = "connect"
            /\ \/ l[i - 1].ev = "disconnect"
               \/ i > 2 /\ l[i - 1].ev = "closePort" /\ l[i - 2].ev = "disconnect"

\* The operations that are one _execute_with_retry and nothing that hides
\* its outcome.
RetryOps == {"bus_move_to", "enable_servo", "disable_servo", "set_speed", "set_acceleration"}

\* The operations of one attempt under the lock, with what they give on a
\* failure.
LockedOps ==
    {"ping_servo", "list_servos", "read_temperature", "read_voltage", "read_current",
     "is_moving"}

FailedValue(op) ==
    IF op \in {"ping_servo", "is_moving"} THEN FALSE
    ELSE IF op = "list_servos" THEN <<>>
    ELSE None

\* C2: ping_servo, list_servos, read_temperature, read_voltage, read_current
\* and is_moving always return and never raise, whatever the state of the
\* bus, and give their failure value (false, [], absent, false) when a call
\* they make fails. On a bus that is not connected these operations call
\* connect() while holding bus.lock, which connect() acquires again: the
\* call never returns.
C2_ReadsAlwaysReturn ==
    last.op \in LockedOps
    => /\ ~hung
       /\ last.exc = None
       /\ ~FaultFree(log) => The(last.ret) = FailedValue(last.op)

\* C6: an _execute_with_retry that reaches its 3rd attempt has made exactly
\* 2 reconnect cycles, each a disconnect, a 0.5 s backoff and a connect in
\* this order; when the 3rd attempt succeeds the call returns its result,
\* and when it fails the call raises ST3215BusError with no disconnect,
\* backoff or reconnect after that attempt.
C6_TwoReconnectCycles ==
    (last.op \in RetryOps /\ Count(log, "attempt") = max_retries)
    => /\ ~hung
       /\ Count(log, "disconnect") = max_retries - 1
       /\ Count(log, "sleep") = max_retries - 1
       /\ CyclesInOrder(log)
       /\ last.exc = None =>
            /\ LastEvent(log).ok
            /\ LastEvent(log).ev \notin {"attempt", "connect", "Open"}
            /\ The(last.ret) = LastEvent(log).ans
       /\ last.exc # None =>
            /\ last.exc = Some("ST3215BusError")
            /\ ~LastEvent(log).ok
            /\ CountAfter(log, LastAttempt(log), "disconnect") = 0
            /\ CountAfter(log, LastAttempt(log), "sleep") = 0
            /\ CountAfter(log, LastAttempt(log), "connect") <= 1

C6_Witness ==
    /\ last.op = "bus_move_to"
    /\ Count(log, "attempt") = max_retries
    /\ last.exc = None
    /\ Count(log, "sleep") = max_retries - 1
    /\ LastEvent(log).ev = "MoveTo"
    /\ bus.position_cache[last.id] = last.arg

C9_InclusiveAtCritical ==
    [][Runs("check_temperature")
        => LET id == last'.id
               t == servo[id].cached_temperature
               c == cfg[id]
           IN /\ t = Some(c.temperature_critical)
                    => /\ shutdown'
                       /\ Called(log', "invoke_shutdown")
                       /\ ~Called(log', "temperature_warning")
                       /\ last'.exc = Some("Exception")
              /\ t = Some(c.temperature_critical - 1)
                    => /\ Called(log', "temperature_warning")
                       /\ ~Called(log', "invoke_shutdown")
                       /\ shutdown' = shutdown
                       /\ last'.exc = None
              /\ (t = None \/ The(t) < c.temperature_warning)
                    => /\ log' = <<>>
                       /\ last'.exc = None
                       /\ shutdown' = shutdown
              /\ UNCHANGED <<servo, bus, cfg>>]_vars

C9_Witness ==
    /\ last.op = "check_temperature"
    /\ servo[last.id].cached_temperature = Some(cfg[last.id].temperature_critical)
    /\ cfg[last.id].temperature_warning + 1 < cfg[last.id].temperature_critical
    /\ Called(log, "invoke_shutdown")
    /\ last.exc = Some("Exception")

\* C10: when the is_moving query of the wait loop of STSERVO_MOVE fails, the
\* command ends with an error and does not answer that the servo reached the
\* position. bus.is_moving turns every failure of the query into False, which
\* the loop reads as "not moving": the command answers "reached position".
C10_FailedCheckIsFailure ==
    (last.op = "cmd_STSERVO_MOVE" /\ \E i \in 1..Len(log) : log[i].ev = "IsMoving" /\ ~log[i].ok)
    => /\ last.exc = Some("gcmd.error")
       /\ \A i \in 1..Len(resp) : resp[i] # "reached position"

InResp(r, text) == \E i \in 1..Len(r) : r[i] = text

\* The device answered the (last) IsMoving query of the handler with a.
Answered(l, a) ==
    \E i \in 1..Len(l) :
        /\ l[i].ev = "IsMoving" /\ l[i].ok /\ l[i].ans = a
        /\ \A j \in (i + 1)..Len(l) : l[j].ev # "IsMoving"

\* C11: a STSERVO_MOVE with WAIT = T > 0 answers "reached position" only
\* after an is_moving query that did not say "moving", and fails with the
\* timeout error only when the clock is at or past wait start + T; when the
\* servo answers that it has stopped the command succeeds; while the servo
\* answers that it moves the command pauses for one poll interval before the
\* deadline and fails with the timeout error from the deadline on; and a
\* paused command always ends (or its thread is blocked by the bus).
C11_WaitEndsInTime ==
    /\ [][Runs("cmd_STSERVO_MOVE")
           => LET id == last'.id
                  poll == Max(PollMin, Min(PollMax, cfg[id].status_update_interval))
              IN /\ InResp(resp', "reached position")
                       => Issued(log', "IsMoving", id) /\ ~Answered(log', TRUE)
                 /\ InResp(resp', "Timeout waiting")
                       => /\ cmd.pc = "paused"
                          /\ clock >= cmd.end_time
                          /\ Answered(log', TRUE)
                          /\ last'.exc = Some("gcmd.error")
                 /\ (FaultFree(log') /\ Answered(log', FALSE))
                       => /\ InResp(resp', "reached position")
                          /\ last'.exc = None
                          /\ cmd' = Idle
                 /\ (Answered(log', TRUE) /\ cmd.pc = "paused")
                       => IF clock >= cmd.end_time
                          THEN InResp(resp', "Timeout waiting") /\ cmd' = Idle
                          ELSE /\ cmd' = [cmd EXCEPT !.wake = clock + poll]
                               /\ last'.exc = None
                 /\ (Answered(log', TRUE) /\ cmd.pc = "idle")
                       => /\ cmd'.pc = "paused"
                          /\ cmd'.end_time > clock
                          /\ cmd'.wake = clock + poll
                          /\ resp' = <<"Moving">>]_vars
    /\ (cmd.pc = "paused") ~> (cmd.pc = "idle" \/ hung)

C11_Witness ==
    /\ last.op = "cmd_STSERVO_MOVE"
    /\ last.arg = None
    /\ Answered(log, TRUE)
    /\ InResp(resp, "Timeout waiting")
    /\ cmd = Idle
    /\ clock >= BootTime + 150

\* The handler's live position read of servo id gave a position.
LiveRead(l, id) ==
    \E i \in 1..Len(l) :
        l[i].ev = "ReadPosition" /\ l[i].id = id /\ l[i].ok /\ l[i].ans # None

\* C12: when the position read of stop() fails, stop() does nothing: bus
\* move_to is not called, no tracked field changes and nothing is raised.
\* bus.read_position answers a failed live read from its position cache, so
\* with a cached position stop() goes on with the stale value: it overwrites
\* current_position and calls bus move_to, which raises when the bus is
\* still down.
C12_StopSilentOnReadFailure ==
    [][(Runs("stop") /\ ~LiveRead(log', last'.id))
        => /\ last'.exc = None
           /\ ~Issued(log', "MoveTo", last'.id)
           /\ Count(log', "execute_with_retry") = 1
           /\ servo' = servo]_vars

\* The primitive `name` was attempted max_retries times and raised each time.
Exhausted(l, name) ==
    /\ Count(l, "attempt") = max_retries
    /\ Count(l, name) = max_retries
    /\ \A i \in 1..Len(l) : l[i].ev = name => ~l[i].ok

PrimitiveOf(op) ==
    CASE op = "bus_move_to" -> "MoveTo"
      [] op = "enable_servo" -> "StartServo"
      [] op = "disable_servo" -> "StopServo"
      [] op = "set_speed" -> "SetSpeed"
      [] op = "set_acceleration" -> "SetAcceleration"

\* C13: bus move_to, enable_servo, disable_servo, set_speed and
\* set_acceleration raise ST3215BusError when the device primitive fails on
\* each of the 3 attempts (and whenever the last attempt fails), and a bus
\* move_to that raises leaves the position cache as it was.
C13_ActuationSurfacesFailure ==
    [][(\E op \in RetryOps : Runs(op))
        => /\ ~hung'
           /\ Exhausted(log', PrimitiveOf(last'.op)) => last'.exc = Some("ST3215BusError")
           /\ ~LastEvent(log').ok => last'.exc = Some("ST3215BusError")
           /\ last'.exc # None => bus'.position_cache = bus.position_cache]_vars

C13_Witness ==
    /\ last.op = "bus_move_to"
    /\ Exhausted(log, "MoveTo")
    /\ last.exc = Some("ST3215BusError")
    /\ bus.position_cache[last.id] # None
    /\ bus.position_cache[last.id] # last.arg

\* What get_status() reports for servo `id` in the current state.
StatusNow(id) == get_status(World(NoFaults, DefaultDev), id)

\* get_status() reports the configured initial position as the target of an
\* enabled servo.
Commanded(id) ==
    /\ cfg[id].initial_position # None
    /\ StatusNow(id).target_position = cfg[id].initial_position
    /\ StatusNow(id).enabled

\* The handler enabled the servo on the bus and then moved it to p, once.
EnabledThenMoved(l, id, p) ==
    /\ Count(l, "StartServo") = 1 /\ Count(l, "MoveTo") = 1
    /\ \E i, j \in 1..Len(l) :
           /\ i < j
           /\ l[i].ev = "StartServo" /\ l[i].id = id
           /\ l[j].ev = "MoveTo" /\ l[j].id = id /\ l[j].args[1] = p

\* The ready phase of servo `id` from the current state on a fault-free bus,
\* had the servo been configured with initial_position = p. Nothing that
\* runs before the ready phase reads initial_position.
ReadyPhase(id, p) ==
    handle_ready([World(NoFaults, DefaultDev) EXCEPT !.cfg[id].initial_position = Some(p)], id)

\* The step of the ready phase on a fault-free bus enables and then moves to
\* initial_position, so that get_status() reports it, and would for every
\* initial_position of the configured range; a step that is the run of none
\* of `ending` leaves the reported target_position as it was and an enabled
\* servo enabled.
ReportsInitialUntil(ending) ==
    \A id \in Active :
        /\ (Runs("handle_ready") /\ last'.id = id /\ cfg[id].initial_position # None
                /\ FaultFree(log'))
             => /\ EnabledThenMoved(log', id, The(cfg[id].initial_position))
                /\ Commanded(id)'
                /\ last'.exc = None
        /\ (Runs("handle_ready") /\ last'.id = id)
             => \A p \in cfg[id].position_min..cfg[id].position_max :
                \A w \in {ReadyPhase(id, p)} :
                    /\ EnabledThenMoved(w.log, id, p)
                    /\ get_status(w, id).target_position = Some(p)
                    /\ get_status(w, id).enabled
        /\ (phase[id] = "ready" /\ ~\E op \in ending : Runs(op))
             => /\ StatusNow(id)'.target_position = StatusNow(id).target_position
                /\ StatusNow(id).enabled => StatusNow(id)'.enabled

\* C14 (as stated): after the ready phase on a fault-free bus, get_status()
\* reports target_position = initial_position and enabled = true until another
\* move, stop or set_position.
C14_ReportsInitialUntilMove ==
    [][ReportsInitialUntil({"move_to", "stop", "set_position"})]_vars

\* C14 (amended): for any configured initial_position in range and a
\* fault-free bus, the ready phase issues the enable and then one move to
\* initial_position, and every get_status() afterwards reports
\* target_position = initial_position and enabled = true until another move,
\* stop, set_position, disable or klippy:shutdown, whether or not a poll tick
\* has completed a live position read.
C14_ReportsInitialUntilCommand ==
    [][ReportsInitialUntil({"move_to", "stop", "set_position", "disable",
                            "handle_shutdown"})]_vars

C14_Witness ==
    /\ last.op = "update_status_timer"
    /\ phase[last.id] = "ready"
    /\ Commanded(last.id)
    /\ ~Issued(log, "MoveTo", last.id)
    /\ servo[last.id].current_position = None

\* C15: every poll tick at time now returns now + status_update_interval as
\* its next wake time whatever the bus does, and a tick without exception
\* leaves last_error unset. A tick whose position read ends with the bus
\* disconnected and whose telemetry is due calls bus.read_temperature, which
\* calls connect() while holding bus.lock: the tick never returns, and the
\* timer is never rescheduled.
C15_TickAlwaysReschedules ==
    last.op = "update_status_timer"
    => /\ ~hung
       /\ The(last.ret) = Some(The(last.arg) + cfg[last.id].status_update_interval)
       /\ servo[last.id].status_timer = The(last.ret)
       /\ FaultFree(log) => servo[last.id].last_error = None

\* What bus.read_position answered in the handler whose calls are l: what
\* the device answered (nothing, when the driver returned None), or else,
\* when every attempt raised, what the cache held before.
PositionRead(l, id, cache) ==
    IF \E i \in 1..Len(l) : l[i].ev = "ReadPosition" /\ l[i].id = id /\ l[i].ok
    THEN (CHOOSE e \in {l[i] : i \in 1..Len(l)} :
              e.ev = "ReadPosition" /\ e.id = id /\ e.ok).ans
    ELSE cache[id]

\* The device took a MoveTo of the handler.
Accepted(l, id) == \E i \in 1..Len(l) : l[i].ev = "MoveTo" /\ l[i].id = id /\ l[i].ok

\* C16: when the position read of stop() gives a position pos and the bus
\* accepts the command, stop() makes one bus.move_to, every driver MoveTo of
\* which is to pos with speed 0 and acceleration 0 and the last of which the
\* device takes, and afterwards current_position = target_position = pos and
\* is_moving is false.
C16_StopHoldsPosition ==
    [][(Runs("stop") /\ Accepted(log', last'.id))
        => \E pos \in {PositionRead(log', last'.id, bus.position_cache)} :
             /\ pos # None
             /\ Count(log', "execute_with_retry") = 2
             /\ \A i \in 1..Len(log') :
                    log'[i].ev = "MoveTo"
                    => /\ log'[i].id = last'.id
                       /\ log'[i].args = <<The(pos), 0, 0>>
                       /\ log'[i].ok <=> i = Len(log')
             /\ servo'[last'.id].current_position = pos
             /\ servo'[last'.id].target_position = pos
             /\ ~servo'[last'.id].is_moving
             /\ last'.exc = None]_vars

C16_Witness ==
    /\ last.op = "stop"
    /\ Accepted(log, last.id)
    /\ LiveRead(log, last.id)
    /\ servo[last.id].current_position = Some(PositionMin)
    /\ servo[last.id].target_position = Some(PositionMin)
    /\ ~servo[last.id].is_moving
    /\ servo[last.id].enabled

\* C17: connect() called on a connected bus opens no driver, changes no field
\* of the bus and returns; called on a disconnected bus whose driver cannot
\* be opened it raises ST3215BusError, leaves connected false and the handle
\* absent, sets last_error to the cause and changes nothing else.
C17_ConnectIdempotent ==
    [][Runs("connect")
        => /\ ~hung'
           /\ bus.connected
                => /\ ~Called(log', "Open")
                   /\ bus' = bus
                   /\ last'.exc = None
           /\ ~bus.connected
                => /\ Count(log', "Open") = 1
                   /\ ~FaultFree(log')
                        => /\ last'.exc = Some("ST3215BusError")
                           /\ bus' = [bus EXCEPT !.last_error = Some("DriverError")]
                           /\ ~bus'.connected
                           /\ bus'.st3215 = None]_vars

C17_Witness ==
    /\ last.op = "connect"
    /\ bus.connected
    /\ ~Called(log, "Open")
    /\ last.exc = None
    /\ bus.position_cache[1] # None
    /\ bus.last_error # None

\* C18: set_position(p) makes no call on the bus and leaves the bus as it
\* was. For p within the limits it sets current_position and target_position
\* to p and leaves every other field of the servo (is_moving, enabled, the
\* cached telemetry, last_error) as it was; for p outside the limits it
\* raises ValueError and changes nothing.
C18_SetPositionIsLogical ==
    [][Runs("set_position")
        => /\ ~hung'
           /\ log' = <<>>
           /\ bus' = bus
           /\ shutdown' = shutdown
           /\ IF InRange(last'.id, The(last'.arg))
              THEN /\ last'.exc = None
                   /\ servo' = [servo EXCEPT ![last'.id].current_position = last'.arg,
                                             ![last'.id].target_position = last'.arg]
              ELSE /\ last'.exc = Some("ValueError")
                   /\ servo' = servo]_vars

C18_Witness ==
    /\ last.op = "set_position"
    /\ last.exc = None
    /\ servo[last.id].current_position = last.arg
    /\ servo[last.id].target_position = last.arg
    /\ servo[last.id].is_moving
    /\ servo[last.id].enabled
    /\ servo[last.id].cached_temperature # None
    /\ bus.position_cache[last.id] # None
    /\ bus.position_cache[last.id] # last.arg

C20_EveryOperationTerminates == last.op # "none" => ~hung

\* C21: every MoveTo a servo's handler issues on the bus (move_to, stop, the
\* initial move of the ready phase) carries a position within the servo's
\* [position_min, position_max], whatever the device reports. stop() sends
\* the position it has read back to the device without validating it, so a
\* device position outside the limits is commanded.
C21_MovesWithinLimits ==
    \A i \in 1..Len(log) :
        (log[i].ev = "MoveTo" /\ log[i].id \in Active)
        => InRange(log[i].id, log[i].args[1])

\* C22: the ready handler returns without an exception and registers the
\* poll timer, due at once, whether initial_position is unset (no call on
\* the bus) or the enable or the initial move fails; when the enable fails
\* no move is attempted, and when the move is not taken the target is not
\* set.
C22_ReadyAlwaysStartsPolling ==
    [][(\E id \in Active : Runs("handle_ready"))
        => /\ ~hung'
           /\ last'.exc = None
           /\ phase'[last'.id] = "ready"
           /\ servo'[last'.id].status_timer = Some(clock)
           /\ cfg[last'.id].initial_position = None
                => log' = <<>> /\ [servo' EXCEPT ![last'.id].status_timer = None] = servo
           /\ ~(\E i \in 1..Len(log') : log'[i].ev = "StartServo" /\ log'[i].ok)
                => ~Called(log', "MoveTo") /\ ~servo'[last'.id].enabled
           /\ ~Accepted(log', last'.id)
                => servo'[last'.id].target_position = servo[last'.id].target_position]_vars

C22_Witness ==
    /\ last.op = "handle_ready"
    /\ Issued(log, "StartServo", last.id)
    /\ Count(log, "attempt") = max_retries
    /\ FaultFree(log) = FALSE
    /\ ~Called(log, "MoveTo")
    /\ last.exc = None
    /\ ~servo[last.id].enabled
    /\ servo[last.id].status_timer = Some(clock)
    /\ cfg[last.id].initial_position = Some(PositionMin)

\* The device took the primitive `name` as the last call of the handler.
Took(l, name) == l # <<>> /\ LastEvent(l).ev = name /\ LastEvent(l).ok

\* C23: enable() sets enabled when the bus enable succeeded and disable()
\* clears enabled and is_moving when the bus disable succeeded, changing
\* nothing else; when the bus raises, the servo is as it was and
\* ST3215BusError reaches the caller, except in the shutdown handler, which
\* never raises.
C23_FlagsFollowBus ==
    [][/\ Runs("enable")
            => /\ ~hung'
               /\ IF Took(log', "StartServo")
                  THEN /\ last'.exc = None
                       /\ servo' = [servo EXCEPT ![last'.id].enabled = TRUE]
                  ELSE /\ last'.exc = Some("ST3215BusError")
                       /\ servo' = servo
       /\ (Runs("disable") \/ Runs("handle_shutdown"))
            => /\ ~hung'
               /\ IF Took(log', "StopServo")
                  THEN /\ last'.exc = None
                       /\ servo' = [servo EXCEPT ![last'.id].enabled = FALSE,
                                                 ![last'.id].is_moving = FALSE]
                  ELSE /\ servo' = servo
                       /\ last'.exc = IF last'.op = "disable" THEN Some("ST3215BusError")
                                      ELSE None]_vars

C23_Witness ==
    /\ last.op = "disable"
    /\ last.exc = Some("ST3215BusError")
    /\ ~Took(log, "StopServo")
    /\ servo[last.id].enabled
    /\ servo[last.id].is_moving

\* C24: after a poll tick whose position read gave pos, current_position is
\* pos and, when target_position is set, is_moving is
\* |pos - target_position| > 5 (5 apart is not moving, 6 apart is moving);
\* when the read gave nothing, current_position and is_moving are as they
\* were. The tick never changes target_position.
C24_DeadBand ==
    [][(Runs("update_status_timer") /\ ~hung')
        => \E pos \in {PositionRead(log', last'.id, bus.position_cache)} :
           \E old \in {servo[last'.id]} : \E new \in {servo'[last'.id]} :
             /\ new.target_position = old.target_position
             /\ IF pos # None
                THEN /\ new.current_position = pos
                     /\ new.is_moving =
                            IF old.target_position # None
                            THEN Abs(The(pos) - The(old.target_position)) > 5
                            ELSE old.is_moving
                ELSE /\ new.current_position = old.current_position
                     /\ new.is_moving = old.is_moving]_vars

C24_Witness ==
    /\ last.op = "update_status_timer"
    /\ ~hung
    /\ LiveRead(log, last.id)
    /\ servo[last.id].current_position # None
    /\ servo[last.id].target_position # None
    /\ Abs(The(servo[last.id].current_position) - The(servo[last.id].target_position)) = 5
    /\ ~servo[last.id].is_moving

\* C25: in every reachable state a servo that is not enabled is not moving
\* (is_moving implies enabled). move_to does not look at enabled and sets
\* is_moving on a disabled servo, and the poll tick recomputes is_moving
\* from the positions alone.
C25_MovingOnlyWhileEnabled ==
    \A id \in Active : servo[id].is_moving => servo[id].enabled

\* C26: a move_to, stop, enable, disable, set_position or poll tick of one
\* servo leaves every tracked field of the other servo of the bus and the
\* position cache entry of the other's id as they were.
C26_NoCrossServoSharing ==
    [][\A a \in ServoIds : \A b \in ServoIds \ {a} :
          (/\ last = NoCall
           /\ last'.id = a
           /\ last'.op \in {"move_to", "stop", "enable", "disable", "set_position",
                            "update_status_timer"})
          => /\ servo'[b] = servo[b]
             /\ bus'.position_cache[b] = bus.position_cache[b]]_vars

C26_Witness ==
    /\ last.op = "stop"
    /\ last.id = 1
    /\ Accepted(log, 1)
    /\ servo[2].enabled /\ servo[2].is_moving
    /\ servo[2].target_position = Some(PositionMin)
    /\ servo[2].current_position # None
    /\ servo[2].current_position # servo[1].current_position
    /\ bus.position_cache[2] = Some(PositionMin)
    /\ bus.position_cache[1] # bus.position_cache[2]

\* Every ReadPosition of the handler raised: the live read failed.
ReadFailed(l, id) ==
    /\ Issued(l, "ReadPosition", id) \/ Count(l, "attempt") = max_retries
    /\ \A i \in 1..Len(l) : l[i].ev = "ReadPosition" => ~l[i].ok

TemperatureAbsent(l, id) ==
    /\ Count(l, "ReadCurrent") + Count(l, "ReadVoltage") + Count(l, "ReadTemperature") >= 1
    /\ \A i \in 1..Len(l) :
           l[i].ev = "ReadTemperature" => (~l[i].ok \/ l[i].ans = None)

\* C28: a poll tick whose telemetry update gets no temperature overwrites
\* cached_temperature with absent, whatever it was; a move_to within the
\* limits while cached_temperature is absent calls bus.move_to and invokes no
\* shutdown, even after a critical temperature had been cached.
C28_ThermalBlockForgotten ==
    [][/\ (Runs("update_status_timer") /\ ~hung' /\ TemperatureAbsent(log', last'.id))
            => servo'[last'.id].cached_temperature = None
       /\ (/\ Runs("move_to")
           /\ servo[last'.id].cached_temperature = None
           /\ InRange(last'.id, The(last'.arg)))
            => /\ shutdown' = shutdown
               /\ Count(log', "execute_with_retry") = 1
               /\ last'.exc \in {None, Some("ST3215BusError")}
               /\ FaultFree(log') => Issued(log', "MoveTo", last'.id) /\ last'.exc = None]_vars

C28_Witness ==
    /\ last.op = "move_to"
    /\ shutdown
    /\ servo[last.id].cached_temperature = None
    /\ servo[last.id].last_status_update > BootTime
    /\ Accepted(log, last.id)
    /\ last.exc = None

====
